---- MODULE Spec2Model ----
(***************************************************************************)
(* A model of the rgcrt collector (src/src/collector.rs) and of the API    *)
(* built on it (src/src/lib.rs): the bump-pointer heap, the collect-next   *)
(* flag, the safepoint poll and the forced collection.                     *)
(*                                                                         *)
(* The collector is single threaded (one thread_local COLLECTOR), so each  *)
(* API call is one atomic action.  What a call did inside (its calls of    *)
(* reserve_block and reclaim, and what it returned) is recorded in the     *)
(* observation variable `last`; `hist` records the alloc_obj calls made    *)
(* since the heap was made: the size asked for, the result and, when the   *)
(* call succeeded, the value stored.  Neither is read by any operation.    *)
(* init() and Collector::mk_root_table are unimplemented!(): they panic    *)
(* before touching the collector, its table stays None, and they have no   *)
(* action here.                                                            *)
(*                                                                         *)
(* The stack-map functions of src/src/safepoints.rs are pure: SpecRoots    *)
(* applies gen_safepoint_roots to one stack-map record and SpecTable       *)
(* applies gen_safepoint_table to a parsed stack-map section.  SpecMatch    *)
(* applies fuzzy_match of the test runner (src/gc_tests/run.rs) to an      *)
(* expected-output pattern and a program's output.                         *)
(*                                                                         *)
(* Addresses are natural numbers.  The crate compiles for x86_64 only      *)
(* (lib.rs:19-20), where a user-space address and the size of a value that *)
(* exists in memory are both far below 2^63, so `hptr as usize + size`     *)
(* never wraps and is modelled by plain addition.                          *)
(***************************************************************************)
EXTENDS Integers, Sequences, FiniteSets

\* Bounds of the model.
MaxHeap == 4        \* largest size passed to mk_heap
MaxSize == 2        \* largest size_of::<T>() of an allocated value
MaxAllocs == 3      \* alloc_obj calls recorded per heap

\* The address space the system allocator hands regions out of; 0 is null.
AddrSpace == MaxHeap + 1
Addr == 0 .. (AddrSpace - 1)

\* Byte values; Uninit is what memory holds before it is written.
Uninit == 0
Byte == {1, 2}

\* The values passed to alloc_obj: size_of::<T>() bytes, here all alike.
Objects == {[i \in 1 .. n |-> b] : n \in 0 .. MaxSize, b \in Byte}

\* collector, mem, brk, hist, last: the collector and what was observed of it.
\* input, output: the argument and the result of the stack-map functions of
\* src/src/safepoints.rs, which read and write no collector state.
VARIABLES collector, mem, brk, hist, last, input, output

vars == <<collector, mem, brk, hist, last, input, output>>

\* No stack map is being read.
NoInput == [tag |-> "None"]
NoOutput == [tag |-> "None"]

----------------------------------------------------------------------------
\* Results of the operations.
NullPtr == 0
Ok(p) == [tag |-> "Ok", ptr |-> p]
OOM == [tag |-> "OOM", ptr |-> NullPtr]
Unit == [tag |-> "Unit", ptr |-> NullPtr]
Panic == [tag |-> "Panic", ptr |-> NullPtr]

\* Option<HashMap<ReturnAddress, SafepointRoots>>::None
None == "None"

\* Collector::new
new == [hptr |-> 0, hstart |-> 0, hend |-> 0, collect_next |-> FALSE, roots |-> None]

\* Collector::collect_next
collect_next(c) == [c EXCEPT !.collect_next = TRUE]

\* Collector::should_collect
should_collect(c) == c.collect_next

\* mk_heap leaving the bump pointer where it was.
mk_heap_noreset(c, ptr, size) == [c EXCEPT !.hstart = ptr, !.hend = ptr + size]

\* mk_heap taking the size for the end address.
mk_heap_endsize(c, ptr, size) == [c EXCEPT !.hptr = ptr, !.hstart = ptr, !.hend = size]

\* The assignments of Collector::mk_heap, given the pointer alloc returned.
mk_heap(c, ptr, size) == [c EXCEPT !.hptr = ptr, !.hstart = ptr, !.hend = ptr + size]

\* A reclaim that frees everything: it resets the bump pointer.
reclaim_reset(c) == [c EXCEPT !.hptr = c.hstart]

\* Collector::reclaim: it prints a message and changes nothing.
reclaim(c) == c

\* One recorded call of reserve_block or reclaim inside an API call.
Event(fn, size, pre, post, res) ==
    [fn |-> fn, size |-> size, pre |-> pre, post |-> post, res |-> res]

\* reserve_block forgetting to advance the bump pointer.
reserve_block_noadvance(c, size) ==
    IF c.hptr + size < c.hend THEN [c |-> c, res |-> Ok(c.hptr)] ELSE [c |-> c, res |-> OOM]

\* reserve_block accepting a block that ends exactly on hend.
reserve_block_le(c, size) ==
    IF c.hptr + size <= c.hend
    THEN [c |-> [c EXCEPT !.hptr = c.hptr + size], res |-> Ok(c.hptr)]
    ELSE [c |-> c, res |-> OOM]

\* reserve_block advancing the bump pointer before the bounds check.
reserve_block_partial(c, size) ==
    IF c.hptr + size < c.hend
    THEN [c |-> [c EXCEPT !.hptr = c.hptr + size], res |-> Ok(c.hptr)]
    ELSE [c |-> [c EXCEPT !.hptr = c.hptr + size], res |-> OOM]

\* Collector::reserve_block: the collector afterwards and the result.
reserve_block(c, size) ==
    LET hptr == c.hptr
        obj_end == hptr + size
    IN  IF obj_end < c.hend
        THEN [c |-> [c EXCEPT !.hptr = obj_end], res |-> Ok(hptr)]
        ELSE [c |-> c, res |-> OOM]

\* ptr::copy_nonoverlapping(&object, hptr, 1): size_of::<T>() bytes at hptr.
copy_nonoverlapping(m, object, hptr) ==
    [a \in Addr |-> IF hptr <= a /\ a < hptr + Len(object)
                    THEN object[a - hptr + 1]
                    ELSE m[a]]

\* alloc_obj collecting before it first tries to reserve.
alloc_obj_eager(c, m, object) ==
    LET c1 == reclaim(c)
        e1 == Event("reclaim", 0, c, c1, Unit)
        r == reserve_block(c1, Len(object))
        e2 == Event("reserve_block", Len(object), c1, r.c, r.res)
    IN  [c |-> r.c,
         mem |-> IF r.res.tag = "Ok" THEN copy_nonoverlapping(m, object, r.res.ptr) ELSE m,
         res |-> r.res, events |-> <<e1, e2>>]

\* Collector::alloc_obj: the collector and the memory afterwards, the result
\* and the calls made on the way.
alloc_obj(c, m, object) ==
    LET obj_size == Len(object)
        r1 == reserve_block(c, obj_size)
        e1 == Event("reserve_block", obj_size, c, r1.c, r1.res)
        c2 == reclaim(r1.c)
        e2 == Event("reclaim", 0, r1.c, c2, Unit)
        r2 == reserve_block(c2, obj_size)
        e3 == Event("reserve_block", obj_size, c2, r2.c, r2.res)
        r == IF r1.res.tag = "Ok" THEN r1 ELSE r2
        events == IF r1.res.tag = "Ok" THEN <<e1>> ELSE <<e1, e2, e3>>
    IN  IF r.res.tag = "Ok"
        THEN [c |-> r.c, mem |-> copy_nonoverlapping(m, object, r.res.ptr),
              res |-> Ok(r.res.ptr), events |-> events]
        ELSE [c |-> r.c, mem |-> m, res |-> r.res, events |-> events]

\* A poll that leaves the collection out.
safepoint_poll_never(c) == [c |-> c, events |-> <<>>]

\* A poll that collects whatever the flag says.
safepoint_poll_always(c) ==
    [c |-> reclaim(c), events |-> <<Event("reclaim", 0, c, reclaim(c), Unit)>>]

\* safepoint_poll: the collector afterwards and the calls made.
safepoint_poll(c) ==
    IF should_collect(c)
    THEN [c |-> reclaim(c), events |-> <<Event("reclaim", 0, c, reclaim(c), Unit)>>]
    ELSE [c |-> c, events |-> <<>>]

\* A forced collection that checks the flag as the poll does.
force_collect_checked(c) ==
    IF should_collect(c)
    THEN [c |-> reclaim(c), events |-> <<Event("reclaim", 0, c, reclaim(c), Unit)>>]
    ELSE [c |-> c, events |-> <<>>]

\* force_collect
force_collect(c) ==
    [c |-> reclaim(c), events |-> <<Event("reclaim", 0, c, reclaim(c), Unit)>>]

----------------------------------------------------------------------------
\* The system allocator (std::alloc::alloc).  Nothing is ever deallocated, so
\* the regions in use are the addresses below brk and a new region starts at
\* brk (a region leaked by an earlier mk_heap shifts the next one).  The
\* pointers alloc may return for `size` bytes (none: it returns null):
FreePtrs(size) ==
    {p \in {brk} : p + size <= AddrSpace}

\* The call alloc(layout) made by mk_heap: the size asked for and the result.
AllocEvent(size, res) == [fn |-> "alloc", size |-> size, res |-> res]

\* What an API call leaves in `last`.
Call(op, events, res) == [op |-> op, events |-> events, res |-> res]

Init ==
    /\ collector = new
    /\ mem = [a \in Addr |-> Uninit]
    /\ brk = 1
    /\ hist = <<>>
    /\ last = Call("new", <<>>, Unit)
    /\ input = NoInput
    /\ output = NoOutput

\* gc.mk_heap(size): alloc returned ptr.
MkHeap ==
    \E size \in 0 .. MaxHeap :
        /\ \E ptr \in FreePtrs(size) :
            /\ collector' = mk_heap(collector, ptr, size)
            /\ brk' = ptr + size
            /\ hist' = <<>>
            /\ last' = Call("mk_heap", <<AllocEvent(size, Ok(ptr))>>, Unit)
            /\ UNCHANGED <<mem, input, output>>

\* gc.mk_heap(size): alloc returned null and mk_heap panicked before it set
\* any field.  alloc is handed a zero-sized layout by mk_heap(0), which is
\* undefined behaviour: it may return null or a pointer (MkHeap).
MkHeapPanic ==
    \E size \in 0 .. MaxHeap :
        /\ size = 0 \/ FreePtrs(size) = {}
        /\ last' = Call("mk_heap", <<>>, Panic)
        /\ UNCHANGED <<collector, mem, brk, hist, input, output>>

\* gc.collect_next()
CollectNext ==
    /\ collector' = collect_next(collector)
    /\ last' = Call("collect_next", <<>>, Unit)
    /\ UNCHANGED <<mem, brk, hist, input, output>>

\* alloc_raw(object), which is gc.alloc_obj(object)
AllocObj ==
    \E object \in Objects :
        LET r == alloc_obj(collector, mem, object) IN
        /\ Len(hist) < MaxAllocs
        /\ collector' = r.c
        /\ mem' = r.mem
        /\ hist' = Append(hist, [size |-> Len(object), res |-> r.res,
                                 object |-> IF r.res.tag = "Ok" THEN object ELSE <<>>])
        /\ last' = Call("alloc_obj", r.events, r.res)
        /\ UNCHANGED <<brk, input, output>>

\* safepoint_poll()
SafepointPoll ==
    LET r == safepoint_poll(collector) IN
    /\ collector' = r.c
    /\ last' = Call("safepoint_poll", r.events, Unit)
    /\ UNCHANGED <<mem, brk, hist, input, output>>

\* force_collect()
ForceCollect ==
    LET r == force_collect(collector) IN
    /\ collector' = r.c
    /\ last' = Call("force_collect", r.events, Unit)
    /\ UNCHANGED <<mem, brk, hist, input, output>>

Next ==
    \/ MkHeap
    \/ MkHeapPanic
    \/ CollectNext
    \/ AllocObj
    \/ SafepointPoll
    \/ ForceCollect

Spec == Init /\ [][Next]_vars

----------------------------------------------------------------------------
\* src/src/safepoints.rs: stack-map records and the roots read from them.

\* Largest number of de-opt locations a record's count location announces.
MaxDeopts == 2
\* Largest number of locations after the count location of a record.
MaxTail == 4
\* Width of a stack-pointer offset, scaled down from 32 bits.
OffsetBits == 2

NUM_SKIP_STACKMAPS == 2

RECURSIVE Pow2(_)
Pow2(n) == IF n = 0 THEN 1 ELSE 2 * Pow2(n - 1)

\* The number of u32 values (2^32 at full width).
U32Space == Pow2(OffsetBits)

\* `o as u32` for an i32 o: two's complement, the bits are kept.
AsU32(o) == IF o < 0 THEN o + U32Space ELSE o

\* ykstackmaps::LocOffset
I32(o) == [variant |-> "I32", val |-> o]
U32(c) == [variant |-> "U32", val |-> c]

\* ykstackmaps::Location { kind, offset, .. }
Loc(kind, offset) == [kind |-> kind, offset |-> offset]

\* A panic unwinding out of a stack-map function.
Fatal == [tag |-> "Panic"]

SPO(n) == [tag |-> "SPO", val |-> n]

\* PtrSlot; a panic in an argument unwinds before the slot is built.
Base(spo) ==
    IF spo.tag = "Panic" THEN Fatal ELSE [tag |-> "Base", offsets |-> <<spo.val>>]

Derived(b, d) ==
    IF b.tag = "Panic" \/ d.tag = "Panic" THEN Fatal
    ELSE [tag |-> "Derived", offsets |-> <<b.val, d.val>>]

SafepointRoots(registers, stack_offsets) ==
    [tag |-> "Ok", registers |-> registers, stack_offsets |-> stack_offsets]

as_sp_offset(offset) ==
    IF offset.variant = "I32" THEN SPO(AsU32(offset.val)) ELSE Fatal

\* Mutations of ptr_slot: the offsets of a Derived slot swapped.
ptr_slot_swapped(base, derived) ==
    IF base.offset = derived.offset
    THEN Base(as_sp_offset(base.offset))
    ELSE Derived(as_sp_offset(derived.offset), as_sp_offset(base.offset))

\* The slot pushed for a base and a derived location that are both Indirect.
ptr_slot(base, derived) ==
    IF base.offset = derived.offset
    THEN Base(as_sp_offset(base.offset))
    ELSE Derived(as_sp_offset(base.offset), as_sp_offset(derived.offset))

\* iter().skip(n)
Skip(s, n) == IF n >= Len(s) THEN <<>> ELSE SubSeq(s, n + 1, Len(s))

\* Mutation of gc_ptrs_loop: a base location without a derived one ends the
\* loop instead of panicking.
RECURSIVE gc_ptrs_loop_drop(_, _)
gc_ptrs_loop_drop(gc_ptrs, offsets) ==
    IF Len(gc_ptrs) < 2 THEN SafepointRoots(<<>>, offsets)
    ELSE LET base == gc_ptrs[1]
             derived == gc_ptrs[2]
             rest == Skip(gc_ptrs, 2)
         IN  CASE base.kind = "Register" -> gc_ptrs_loop_drop(rest, offsets)
               [] base.kind = "Indirect" ->
                    IF derived.kind = "Indirect"
                    THEN LET slot == ptr_slot(base, derived)
                         IN  IF slot.tag = "Panic" THEN Fatal
                             ELSE gc_ptrs_loop_drop(rest, Append(offsets, slot))
                    ELSE Fatal
               [] OTHER -> gc_ptrs_loop_drop(rest, offsets)

\* The while-let loop of gen_safepoint_roots over the locations left in
\* gc_ptrs, with the slots pushed so far, up to the value returned.
RECURSIVE gc_ptrs_loop(_, _)
gc_ptrs_loop(gc_ptrs, offsets) ==
    IF gc_ptrs = <<>> THEN SafepointRoots(<<>>, offsets)
    ELSE IF Len(gc_ptrs) = 1 THEN Fatal  \* gc_ptrs.next().unwrap() on None
    ELSE LET base == gc_ptrs[1]
             derived == gc_ptrs[2]
             rest == Skip(gc_ptrs, 2)
         IN  CASE base.kind = "Register" -> gc_ptrs_loop(rest, offsets)
               [] base.kind = "Indirect" ->
                    IF derived.kind = "Indirect"
                    THEN LET slot == ptr_slot(base, derived)
                         IN  IF slot.tag = "Panic" THEN Fatal
                             ELSE gc_ptrs_loop(rest, Append(offsets, slot))
                    ELSE Fatal  \* unimplemented!()
               [] OTHER -> gc_ptrs_loop(rest, offsets)

\* Mutation of gen_safepoint_roots: the de-opt locations are not skipped.
gen_safepoint_roots_nodeopt(stackmap, debug) ==
    LET locs == stackmap.locs IN
    IF debug /\ (Len(locs) < 1 \/ locs[1].kind # "Constant") THEN Fatal
    ELSE IF debug /\ (Len(locs) < 2 \/ locs[2].kind # "Constant") THEN Fatal
    ELSE IF Len(locs) < NUM_SKIP_STACKMAPS + 1 THEN Fatal
    ELSE IF locs[NUM_SKIP_STACKMAPS + 1].offset.variant # "U32" THEN Fatal
    ELSE LET idx == NUM_SKIP_STACKMAPS + 1
         IN  IF debug /\ (Len(locs) - idx) % 2 # 0 THEN Fatal
             ELSE gc_ptrs_loop(Skip(locs, idx), <<>>)

\* gen_safepoint_roots(stackmap) in a build with debug assertions
\* (debug = TRUE) or without them.
gen_safepoint_roots(stackmap, debug) ==
    LET locs == stackmap.locs IN
    IF debug /\ (Len(locs) < 1 \/ locs[1].kind # "Constant") THEN Fatal
    ELSE IF debug /\ (Len(locs) < 2 \/ locs[2].kind # "Constant") THEN Fatal
    ELSE IF Len(locs) < NUM_SKIP_STACKMAPS + 1 THEN Fatal  \* index out of bounds
    ELSE IF locs[NUM_SKIP_STACKMAPS + 1].offset.variant # "U32" THEN Fatal
    ELSE LET num_deopts == locs[NUM_SKIP_STACKMAPS + 1].offset.val
             idx == NUM_SKIP_STACKMAPS + num_deopts + 1
         IN  IF debug /\ Len(locs) < idx THEN Fatal  \* len() - idx overflows
             ELSE IF debug /\ (Len(locs) - idx) % 2 # 0 THEN Fatal
             ELSE gc_ptrs_loop(Skip(locs, idx), <<>>)

\* Offsets of the locations drawn.
Offsets == {-1, 0, 1}

\* The locations a record is made of after its count location.
Locs ==
    {Loc("Register", I32(0)), Loc("Direct", I32(1)), Loc("Constant", U32(0)),
     Loc("Indirect", U32(1))}
    \cup {Loc("Indirect", I32(o)) : o \in Offsets}

RECURSIVE Seqs(_, _)
Seqs(S, n) ==
    IF n = 0 THEN {<<>>}
    ELSE LET shorter == Seqs(S, n - 1)
         IN  shorter \cup {Append(s, x) : s \in {t \in shorter : Len(t) = n - 1}, x \in S}

\* SMRec { locs, .. }
SMRec(locs) == [locs |-> locs]

Header(d) ==
    <<Loc("Constant", U32(0)), Loc("Constant", U32(0)), Loc("Constant", U32(d))>>

\* Records with two constants and a count in front, and records without.
Records ==
    {SMRec(Header(d) \o t) : d \in 0 .. MaxDeopts, t \in Seqs(Locs, MaxTail)}
    \cup {SMRec(SubSeq(Header(0), 1, n)) : n \in 0 .. NUM_SKIP_STACKMAPS}
    \cup {SMRec(<<l, Loc("Constant", U32(0)), Loc("Constant", U32(0))>>)
            : l \in {Loc("Register", I32(0))}}
    \cup {SMRec(<<Loc("Constant", U32(0)), l, Loc("Constant", U32(0))>>)
            : l \in {Loc("Register", I32(0))}}
    \cup {SMRec(<<Loc("Constant", U32(0)), Loc("Constant", U32(0)), l>>)
            : l \in {Loc("Register", I32(0))}}

InitRoots ==
    /\ collector = new
    /\ mem = [a \in Addr |-> Uninit]
    /\ brk = 1
    /\ hist = <<>>
    /\ last = Call("new", <<>>, Unit)
    /\ input \in {[stackmap |-> r, debug |-> d] : r \in Records, d \in BOOLEAN}
    /\ output = NoOutput

\* gen_safepoint_roots(stackmap)
GenSafepointRoots ==
    /\ output.tag = "None"
    /\ output' = gen_safepoint_roots(input.stackmap, input.debug)
    /\ UNCHANGED <<collector, mem, brk, hist, last, input>>

NextRoots == GenSafepointRoots

SpecRoots == InitRoots /\ [][NextRoots]_vars

----------------------------------------------------------------------------
\* src/src/safepoints.rs: the table built from a parsed stack-map section.
\* parser.iter_functions() and parser.iter_stackmaps() are the sequences
\* `functions` and `stackmaps`, every item parsed without error.

\* Largest number of functions of a section.
MaxFuncs == 3
\* Largest record count a function announces.
MaxRecordCount == 2
\* Largest number of records of a section.
MaxRecords == 3

\* frames.insert(k, v) of a HashMap: the value of an existing key is replaced.
Insert(frames, k, v) ==
    [x \in (DOMAIN frames) \cup {k} |-> IF x = k THEN v ELSE frames[x]]

\* The table being built: the map, the calls frames.insert made so far (the
\* key and the position of the record in the section) and the number of
\* records taken from the stackmaps iterator.
Table(frames, inserts, pos) ==
    [tag |-> "Ok", frames |-> frames, inserts |-> inserts, pos |-> pos]

Min(a, b) == IF a <= b THEN a ELSE b

\* Mutation of take: the records are taken from the start of the section
\* for every function.
take_restart(stackmaps, pos, n) ==
    [i \in 1 .. Min(n, Len(stackmaps)) |-> i]

\* stackmaps.take(n) on the iterator borrowed by `ref mut`, pos records
\* already taken: the positions of the next n records, or of those left.
take(stackmaps, pos, n) ==
    [i \in 1 .. Min(n, Len(stackmaps) - Min(pos, Len(stackmaps))) |-> pos + i]

\* The inner for loop over the records taken for func.
RECURSIVE insert_records(_, _, _, _, _)
insert_records(func, stackmaps, taken, table, debug) ==
    IF taken = <<>> THEN table
    ELSE LET roots == gen_safepoint_roots(stackmaps[Head(taken)], debug)
         IN  IF roots.tag = "Panic" THEN Fatal
             ELSE insert_records(func, stackmaps, Tail(taken),
                      Table(Insert(table.frames, func.addr, roots),
                            Append(table.inserts, [addr |-> func.addr, rec |-> Head(taken)]),
                            table.pos + 1),
                      debug)

\* The for loop over parser.iter_functions().
RECURSIVE read_functions(_, _, _, _)
read_functions(functions, stackmaps, table, debug) ==
    IF functions = <<>> THEN table
    ELSE LET func == Head(functions)
             taken == take(stackmaps, table.pos, func.record_count)
             t == insert_records(func, stackmaps, taken, table, debug)
         IN  IF t.tag = "Panic" THEN Fatal
             ELSE read_functions(Tail(functions), stackmaps, t, debug)

gen_safepoint_table(functions, stackmaps, debug) ==
    read_functions(functions, stackmaps, Table(<<>>, <<>>, 0), debug)

\* The address of the i-th function of a section.
FuncAddr(i) == 16 * i

\* The function lists of a section: distinct addresses, any record counts.
Functions ==
    UNION {[1 .. n -> 0 .. MaxRecordCount] : n \in 0 .. MaxFuncs}

FuncsOf(counts) ==
    [i \in DOMAIN counts |-> [addr |-> FuncAddr(i), record_count |-> counts[i]]]

\* The records a section is made of: one giving a Base slot, one giving a
\* Derived slot after a de-opt location, and one with an unpaired location.
SectionRecords ==
    {SMRec(Header(0) \o <<Loc("Indirect", I32(1)), Loc("Indirect", I32(1))>>),
     SMRec(Header(1) \o <<Loc("Constant", U32(0)),
                          Loc("Indirect", I32(-1)), Loc("Indirect", I32(1))>>),
     SMRec(Header(0) \o <<Loc("Indirect", I32(1))>>)}

InitTable ==
    /\ collector = new
    /\ mem = [a \in Addr |-> Uninit]
    /\ brk = 1
    /\ hist = <<>>
    /\ last = Call("new", <<>>, Unit)
    /\ input \in {[functions |-> FuncsOf(c), stackmaps |-> s, debug |-> d]
                    : c \in Functions, s \in Seqs(SectionRecords, MaxRecords),
                      d \in BOOLEAN}
    /\ output = NoOutput

\* gen_safepoint_table(path)
GenSafepointTable ==
    /\ output.tag = "None"
    /\ output' = gen_safepoint_table(input.functions, input.stackmaps, input.debug)
    /\ UNCHANGED <<collector, mem, brk, hist, last, input>>

NextTable == GenSafepointTable

SpecTable == InitTable /\ [][NextTable]_vars

----------------------------------------------------------------------------
\* src/gc_tests/run.rs: fuzzy_match.  A text is a sequence of characters,
\* each a one-character string.

\* Largest number of lines of an expected-output pattern.
MaxPLines == 3
\* Largest number of lines of a program's output.
MaxSLines == 3

WILDCARD == <<".", ".", ".">>

\* char::is_whitespace, for the characters drawn.
IsWhitespace(c) == c \in {" ", "\n"}

\* &t[n..]
Slice(t, n) == IF n >= Len(t) THEN <<>> ELSE SubSeq(t, n + 1, Len(t))

RECURSIVE trim_start(_)
trim_start(t) ==
    IF t # <<>> /\ IsWhitespace(Head(t)) THEN trim_start(Tail(t)) ELSE t

RECURSIVE trim_end(_)
trim_end(t) ==
    IF t # <<>> /\ IsWhitespace(t[Len(t)])
    THEN trim_end(SubSeq(t, 1, Len(t) - 1))
    ELSE t

\* str::trim
trim(t) == trim_end(trim_start(t))

starts_with(t, p) == Len(p) <= Len(t) /\ SubSeq(t, 1, Len(p)) = p

ends_with(t, p) == Len(p) <= Len(t) /\ Slice(t, Len(t) - Len(p)) = p

\* str::trim_start_matches: the prefix is removed as often as it occurs.
RECURSIVE trim_start_matches(_, _)
trim_start_matches(t, p) ==
    IF p # <<>> /\ starts_with(t, p)
    THEN trim_start_matches(Slice(t, Len(p)), p)
    ELSE t

\* str::lines: the text split at each "\n"; a final "\n" ends the last line
\* and starts no empty one.
RECURSIVE lines(_)
lines(t) ==
    IF t = <<>> THEN <<>>
    ELSE LET ends == {k \in DOMAIN t : t[k] = "\n"}
         IN  IF ends = {} THEN <<t>>
             ELSE LET k == CHOOSE e \in ends : \A f \in ends : e <= f
                  IN  <<SubSeq(t, 1, k - 1)>> \o lines(Slice(t, k))

\* The value fuzzy_match returns.
Returned(b) == [tag |-> "Ok", val |-> b]

\* The inner while loop: the first index from si on whose line equals p,
\* slines.len() when there is none.
RECURSIVE skip_to(_, _, _)
skip_to(p, slines, si) ==
    IF si < Len(slines) /\ p # slines[si + 1] THEN skip_to(p, slines, si + 1) ELSE si

\* The outer while loop of fuzzy_match from the indices pi and si (counted
\* from 0) up to the value returned.
RECURSIVE match_loop(_, _, _, _)
match_loop(plines, slines, pi, si) ==
    IF ~(pi < Len(plines) /\ si < Len(slines)) THEN Returned(TRUE)
    ELSE IF plines[pi + 1] = WILDCARD
    THEN IF pi + 1 = Len(plines) THEN Returned(TRUE)
         ELSE IF plines[pi + 2] = WILDCARD THEN Fatal
         ELSE LET found == skip_to(plines[pi + 2], slines, si)
              IN  IF found = Len(slines) THEN Returned(FALSE)
                  ELSE match_loop(plines, slines, pi + 1, found)
    ELSE IF \/ /\ starts_with(plines[pi + 1], WILDCARD)
               /\ ends_with(slines[si + 1], trim(Slice(plines[pi + 1], Len(WILDCARD))))
            \/ plines[pi + 1] = slines[si + 1]
    THEN match_loop(plines, slines, pi + 1, si + 1)
    ELSE Returned(FALSE)

\* plines of fuzzy_match
PLines(pattern) ==
    LET ls == lines(trim(pattern))
    IN  [i \in DOMAIN ls |-> trim(trim_start_matches(ls[i], <<"/", "/", "/">>))]

\* slines of fuzzy_match; s is valid UTF-8.
SLines(s) ==
    LET ls == lines(trim(s))
    IN  [i \in DOMAIN ls |-> trim(ls[i])]

fuzzy_match(pattern, s) == match_loop(PLines(pattern), SLines(s), 0, 0)

\* The lines joined by "\n", as run_test joins the lines of the body.
RECURSIVE Join(_)
Join(ls) ==
    IF ls = <<>> THEN <<>>
    ELSE IF Len(ls) = 1 THEN ls[1]
    ELSE ls[1] \o <<"\n">> \o Join(Tail(ls))

\* Lines of the rustdoc comment a pattern is taken from: two literal lines,
\* a wildcard line and a line matching the end of an output line.
PatternLines ==
    {<<"/", "/", "/", " ", "a">>, <<"/", "/", "/", "b", " ">>,
     <<"/", "/", "/", ".", ".", ".">>, <<"/", "/", "/", " ", ".", ".", ".", "a">>}

\* Lines a program prints.
OutputLines == {<<"a">>, <<" ", "b">>, <<"b", "a">>}

InitMatch ==
    /\ collector = new
    /\ mem = [a \in Addr |-> Uninit]
    /\ brk = 1
    /\ hist = <<>>
    /\ last = Call("new", <<>>, Unit)
    /\ input \in {[pattern |-> Join(p), s |-> Join(l) \o nl]
                    : p \in Seqs(PatternLines, MaxPLines),
                      l \in Seqs(OutputLines, MaxSLines),
                      nl \in {<<>>, <<"\n">>}}
    /\ output = NoOutput

\* fuzzy_match(&expbody, &output.stdout)
FuzzyMatch ==
    /\ output.tag = "None"
    /\ output' = fuzzy_match(input.pattern, input.s)
    /\ UNCHANGED <<collector, mem, brk, hist, last, input>>

NextMatch == FuzzyMatch

SpecMatch == InitMatch /\ [][NextMatch]_vars

----------------------------------------------------------------------------
\* What the properties below read.

\* The configured heap size: hend - hstart (0 before mk_heap).
HeapSize == collector.hend - collector.hstart

\* unsafe { &*raw_gcptr }: the n bytes at p.
Read(m, p, n) == [i \in 1 .. n |-> m[p + i - 1]]

\* The cumulative size asked for by the first k alloc_obj calls of hist.
RECURSIVE Cum(_)
Cum(k) == IF k = 0 THEN 0 ELSE hist[k].size + Cum(k - 1)

\* How many of the calls in events were calls of fn.
Count(events, fn) == Cardinality({i \in DOMAIN events : events[i].fn = fn})

\* The reserve_block calls of the last API call.
Reserves == {last.events[i] : i \in {j \in DOMAIN last.events : last.events[j].fn = "reserve_block"}}

IsOk(res) == res.tag = "Ok"

----------------------------------------------------------------------------
(* C1: as long as the cumulative size of the alloc_obj calls made since     *)
(* mk_heap(H) is strictly below H, every one of them succeeded and every    *)
(* returned pointer still reads back the value that was allocated there.    *)
C1_BumpAllocation ==
    Cum(Len(hist)) < HeapSize =>
        \A k \in DOMAIN hist :
            /\ IsOk(hist[k].res)
            /\ Read(mem, hist[k].res.ptr, hist[k].size) = hist[k].object

C1_Witness ==
    /\ last.op = "alloc_obj"
    /\ Len(hist) = 3
    /\ Cum(3) < HeapSize
    /\ \A k \in 1 .. 3 : hist[k].size > 0 /\ IsOk(hist[k].res)
    /\ hist[1].object # hist[2].object
    /\ Read(mem, hist[1].res.ptr, hist[1].size) = hist[1].object

(* C2: with a heap of H bytes and alloc_obj calls that all have the same    *)
(* size S > 0, the k-th call succeeds exactly when k * S < H, so the first  *)
(* n calls succeed (n the largest integer with n * S < H) and every later   *)
(* one returns OOM; with H = 2 * S the first succeeds and the second fails. *)
C2_OomDeterminism ==
    \A S \in 1 .. MaxSize :
        (\A i \in DOMAIN hist : hist[i].size = S) =>
            \A k \in DOMAIN hist :
                /\ IsOk(hist[k].res) <=> k * S < HeapSize
                /\ ~IsOk(hist[k].res) => hist[k].res = OOM

C2_Witness ==
    /\ Len(hist) = 3
    /\ hist[1].size > 0
    /\ \A i \in 1 .. 3 : hist[i].size = hist[1].size
    /\ HeapSize = 2 * hist[1].size
    /\ IsOk(hist[1].res)
    /\ hist[2].res = OOM
    /\ hist[3].res = OOM

(* C3: reserve_block(size) succeeds if and only if bump pointer + size is   *)
(* strictly below heap end; on success it returns the bump pointer from     *)
(* before the call and leaves the bump pointer at that value plus size; a   *)
(* block that would end exactly on heap end is rejected.                    *)
C3_ReserveBlock ==
    \A e \in Reserves :
        /\ IsOk(e.res) <=> e.pre.hptr + e.size < e.pre.hend
        /\ IsOk(e.res) => e.res.ptr = e.pre.hptr /\ e.post.hptr = e.pre.hptr + e.size
        /\ e.pre.hptr + e.size = e.pre.hend => ~IsOk(e.res)

C3_Witness ==
    /\ \E e \in Reserves : e.size > 0 /\ e.pre.hptr + e.size = e.pre.hend /\ ~IsOk(e.res)
    /\ \E k \in DOMAIN hist : IsOk(hist[k].res) /\ hist[k].size > 0

(* C4: a reserve_block call that fails returns the out-of-memory error and  *)
(* leaves the bump pointer, the heap start and end, the collect-next flag   *)
(* and the safepoint table as they were.                                    *)
C4_ReserveFailFrame ==
    \A e \in Reserves : ~IsOk(e.res) => e.res = OOM /\ e.post = e.pre

C4_Witness ==
    \E e \in Reserves :
        /\ ~IsOk(e.res)
        /\ e.size > 0
        /\ e.pre.hptr > e.pre.hstart
        /\ e.pre.collect_next

(* C5: an alloc_obj call whose first reserve_block succeeds runs no         *)
(* reclaim; one whose first reserve_block fails runs reclaim exactly once   *)
(* and then reserve_block exactly once more, and returns OOM if that retry  *)
(* fails.  No call runs reclaim twice or reserve_block three times.         *)
C5_AllocRetryOnce ==
    last.op = "alloc_obj" =>
        LET ev == last.events IN
        /\ Count(ev, "reclaim") <= 1
        /\ Count(ev, "reserve_block") <= 2
        /\ \/ /\ Len(ev) = 1
              /\ ev[1].fn = "reserve_block"
              /\ IsOk(ev[1].res)
              /\ last.res = ev[1].res
           \/ /\ Len(ev) = 3
              /\ ev[1].fn = "reserve_block"
              /\ ~IsOk(ev[1].res)
              /\ ev[2].fn = "reclaim"
              /\ ev[3].fn = "reserve_block"
              /\ last.res = ev[3].res
              /\ ~IsOk(ev[3].res) => last.res = OOM

C5_Witness ==
    /\ last.op = "alloc_obj"
    /\ Len(last.events) = 3
    /\ last.res = OOM
    /\ \E k \in DOMAIN hist : IsOk(hist[k].res)

(* C6: a safepoint_poll call made while the collect-next flag is set runs   *)
(* reclaim exactly once before it returns.                                  *)
C6_PollCollects ==
    [][(last'.op = "safepoint_poll" /\ should_collect(collector))
          => Count(last'.events, "reclaim") = 1]_vars

C6_Witness ==
    /\ last.op = "safepoint_poll"
    /\ should_collect(collector)
    /\ Count(last.events, "reclaim") = 1
    /\ last.events[1].pre.collect_next

(* C7: a safepoint_poll call made while the collect-next flag is clear runs *)
(* no reclaim and leaves the bump pointer, the heap bounds, the flag, the   *)
(* safepoint table and the heap contents unchanged.                         *)
C7_PollNoCollectFrame ==
    [][(last'.op = "safepoint_poll" /\ ~should_collect(collector))
          => /\ Count(last'.events, "reclaim") = 0
             /\ collector' = collector
             /\ mem' = mem]_vars

C7_Witness ==
    /\ last.op = "safepoint_poll"
    /\ ~should_collect(collector)
    /\ last.events = <<>>
    /\ collector.hptr > collector.hstart

(* C8: the collect-next flag is cleared by reclaim running: after a call in *)
(* which a collection ran (a poll with the flag set, force_collect, or an   *)
(* allocation retry) should_collect is false.                               *)
C8_FlagClearedByReclaim ==
    Count(last.events, "reclaim") > 0 => ~should_collect(collector)

(* C9: every force_collect call runs reclaim exactly once, whether the      *)
(* collect-next flag is set or clear.                                       *)
C9_ForceCollect ==
    last.op = "force_collect" => Count(last.events, "reclaim") = 1

C9_Witness ==
    /\ last.op = "force_collect"
    /\ ~should_collect(collector)
    /\ Count(last.events, "reclaim") = 1

(* C10: reclaim resets the bump pointer when nothing on the heap is         *)
(* reachable (no root is ever registered: the table is None), so an         *)
(* alloc_obj whose first reserve_block failed and whose value fits in the   *)
(* empty heap succeeds on its retry.                                        *)
C10_ReclaimFreesSpace ==
    (/\ last.op = "alloc_obj"
     /\ Count(last.events, "reclaim") > 0
     /\ collector.roots = None
     /\ last.events[1].size < HeapSize)
        => IsOk(last.res)

(* C11: reclaim runs only where the mutator asked to be suspended: every    *)
(* run of reclaim happens inside a safepoint_poll call or a force_collect   *)
(* call, and no other operation of the API runs it.                         *)
C11_ReclaimOnlyAtSafepoint ==
    Count(last.events, "reclaim") > 0 => last.op \in {"safepoint_poll", "force_collect"}

(* C17: after any mk_heap(size) call that returns, a second call made       *)
(* after allocations included, the bump pointer equals the heap start and   *)
(* heap end - heap start equals size; the collect-next flag and the         *)
(* safepoint table are unchanged by the call.                               *)
C17_MkHeap ==
    [][(last'.op = "mk_heap" /\ last'.res = Unit)
          => /\ collector'.hptr = collector'.hstart
             /\ collector'.hend = collector'.hstart + last'.events[1].size
             /\ collector'.collect_next = collector.collect_next
             /\ collector'.roots = collector.roots]_vars

C17_Witness ==
    /\ last.op = "mk_heap"
    /\ last.res = Unit
    /\ last.events[1].size > 0
    /\ collector.hptr = collector.hstart
    /\ collector.collect_next
    /\ \E a \in Addr : a < collector.hstart /\ mem[a] # Uninit

\* The Uninitialized state: constructed by new, mk_heap never called (a heap
\* never starts at the null pointer).
Uninitialized(c) ==
    c.hptr = NullPtr /\ c.hstart = NullPtr /\ c.hend = NullPtr /\ c.roots = None

(* C18: on a collector in the Uninitialized state alloc_obj never returns a *)
(* pointer: for a value of any size, size 0 included, it returns GcErr::OOM *)
(* and leaves the bump pointer and the heap bounds at zero.                 *)
C18_UninitializedAlloc ==
    [][(Uninitialized(collector) /\ last'.op = "alloc_obj")
          => /\ last'.res = OOM
             /\ collector'.hptr = 0
             /\ collector'.hstart = 0
             /\ collector'.hend = 0]_vars

C18_Witness ==
    /\ last.op = "alloc_obj"
    /\ Uninitialized(collector)
    /\ \E k \in DOMAIN hist : hist[k].size = 0 /\ hist[k].res = OOM
    /\ \E k \in DOMAIN hist : hist[k].size > 0 /\ hist[k].res = OOM

(* C19: in every state reachable by mk_heap, alloc_obj, collect_next,       *)
(* safepoint_poll and force_collect calls, heap start <= bump pointer <=    *)
(* heap end, and every block [p, p + size) a successful alloc_obj returned  *)
(* has heap start <= p and p + size < heap end.  (No sum of the model       *)
(* wraps, so the arithmetic modulo 2^64 is the plain one.)                  *)
C19_HeapBounds ==
    /\ collector.hstart <= collector.hptr
    /\ collector.hptr <= collector.hend
    /\ \A k \in DOMAIN hist :
          IsOk(hist[k].res) =>
              /\ collector.hstart <= hist[k].res.ptr
              /\ hist[k].res.ptr + hist[k].size < collector.hend

C19_Witness ==
    /\ collector.hstart > 1
    /\ collector.hstart < collector.hptr
    /\ collector.hptr < collector.hend
    /\ collector.collect_next
    /\ Len(hist) >= 2
    /\ \A k \in 1 .. 2 : IsOk(hist[k].res) /\ hist[k].size > 0

(* C20: any two blocks returned by successful alloc_obj calls since the     *)
(* most recent mk_heap occupy disjoint address ranges, whatever             *)
(* collect_next, safepoint_poll, force_collect and failed alloc_obj calls   *)
(* came between them.                                                       *)
C20_BlocksDisjoint ==
    \A i, j \in DOMAIN hist :
        (i < j /\ IsOk(hist[i].res) /\ IsOk(hist[j].res)) =>
            \/ hist[i].res.ptr + hist[i].size <= hist[j].res.ptr
            \/ hist[j].res.ptr + hist[j].size <= hist[i].res.ptr

C20_Witness ==
    /\ Len(hist) = 3
    /\ IsOk(hist[1].res) /\ hist[1].size > 0
    /\ hist[2].res = OOM
    /\ IsOk(hist[3].res) /\ hist[3].size > 0
    /\ collector.collect_next
    /\ last.op = "force_collect"

----------------------------------------------------------------------------
\* What the properties of gen_safepoint_roots read.

\* The record has a count location that holds a count.
HasCount(stackmap) ==
    /\ Len(stackmap.locs) > NUM_SKIP_STACKMAPS
    /\ stackmap.locs[NUM_SKIP_STACKMAPS + 1].offset.variant = "U32"

\* The locations after the two constants, the count location and the
\* de-opt locations the count announces.
GcPtrs(stackmap) ==
    Skip(stackmap.locs,
         NUM_SKIP_STACKMAPS + 1 + stackmap.locs[NUM_SKIP_STACKMAPS + 1].offset.val)

\* The (base, derived) pairs of a sequence of GC-pointer locations.
Pairs(gc) == [i \in 1 .. (Len(gc) \div 2) |-> <<gc[2 * i - 1], gc[2 * i]>>]

BothIndirect(p) == p[1].kind = "Indirect" /\ p[2].kind = "Indirect"

BothRegister(p) == p[1].kind = "Register" /\ p[2].kind = "Register"

\* u is the 32-bit unsigned image of the signed offset o.
IsU32Of(u, o) == u \in 0 .. (U32Space - 1) /\ (u - o.val) % U32Space = 0

\* C12: when gen_safepoint_roots returns, stack_offsets holds exactly one
\* slot for every (base, derived) pair of Indirect locations, in the order
\* of the pairs: Base with the offset when the two offsets are equal,
\* Derived with the base offset first and the derived offset second when
\* they differ (each offset as the u32 the code stores).
C12_IndirectPairSlot ==
    output.tag = "Ok" =>
        LET ind == SelectSeq(Pairs(GcPtrs(input.stackmap)), BothIndirect)
            slots == output.stack_offsets
        IN  /\ Len(slots) = Len(ind)
            /\ \A k \in DOMAIN ind :
                 IF ind[k][1].offset = ind[k][2].offset
                 THEN /\ slots[k].tag = "Base"
                      /\ Len(slots[k].offsets) = 1
                      /\ IsU32Of(slots[k].offsets[1], ind[k][1].offset)
                 ELSE /\ slots[k].tag = "Derived"
                      /\ Len(slots[k].offsets) = 2
                      /\ IsU32Of(slots[k].offsets[1], ind[k][1].offset)
                      /\ IsU32Of(slots[k].offsets[2], ind[k][2].offset)

\* A record with an equal-offset pair and then a pair of a negative base
\* offset and a positive derived offset was read.
C12_Witness ==
    /\ output.tag = "Ok"
    /\ Len(output.stack_offsets) = 2
    /\ output.stack_offsets[1].tag = "Base"
    /\ output.stack_offsets[2].tag = "Derived"
    /\ LET gc == GcPtrs(input.stackmap)
       IN  /\ Len(gc) = 4
           /\ gc[3].offset.val < 0
           /\ gc[4].offset.val > 0

\* C13: a record that has an odd number of locations after the two
\* constants, the count location and the de-opt locations makes
\* gen_safepoint_roots panic, with debug assertions and without them; it
\* never returns roots.
C13_OddCountFatal ==
    (/\ output.tag # "None"
     /\ HasCount(input.stackmap)
     /\ Len(GcPtrs(input.stackmap)) % 2 = 1)
        => output.tag = "Panic"

\* Without debug assertions, a record of three Indirect locations with
\* signed offsets, the first two a pair and the third unpaired, panicked.
C13_Witness ==
    /\ output.tag = "Panic"
    /\ ~input.debug
    /\ HasCount(input.stackmap)
    /\ LET gc == GcPtrs(input.stackmap)
       IN  /\ Len(gc) = 3
           /\ \A k \in 1 .. 3 : gc[k].kind = "Indirect" /\ gc[k].offset.variant = "I32"

\* C14: a record with a (base, derived) pair whose kinds are neither both
\* Register nor both Indirect makes gen_safepoint_roots panic.
C14_UnsupportedPairFatal ==
    (/\ output.tag # "None"
     /\ HasCount(input.stackmap)
     /\ \E k \in DOMAIN Pairs(GcPtrs(input.stackmap)) :
           LET p == Pairs(GcPtrs(input.stackmap))[k]
           IN  ~BothIndirect(p) /\ ~BothRegister(p))
        => output.tag = "Panic"

----------------------------------------------------------------------------
\* What the properties of gen_safepoint_table read.

RECURSIVE SumCounts(_)
SumCounts(functions) ==
    IF functions = <<>> THEN 0
    ELSE Head(functions).record_count + SumCounts(Tail(functions))

\* The number of records the functions before the i-th announce.
Before(functions, i) == SumCounts(SubSeq(functions, 1, i - 1))

\* The function that the k-th record of the section belongs to.
Owner(functions, k) ==
    CHOOSE i \in DOMAIN functions :
        Before(functions, i) < k /\ k <= Before(functions, i) + functions[i].record_count

\* C15: in the table gen_safepoint_table returns, every record inserted has
\* an entry of its own: there are as many entries as records inserted, and
\* the roots of every inserted record are still the value of some key.
C15_RecordsKeyedIndependently ==
    output.tag = "Ok" =>
        /\ Cardinality(DOMAIN output.frames) = Len(output.inserts)
        /\ \A k \in DOMAIN output.inserts :
             \E key \in DOMAIN output.frames :
                output.frames[key] =
                    gen_safepoint_roots(input.stackmaps[output.inserts[k].rec], input.debug)

SlotOf(b, d) ==
    IF b = d THEN [tag |-> "Base", offsets |-> <<b % U32Space>>]
    ELSE [tag |-> "Derived", offsets |-> <<b % U32Space, d % U32Space>>]

\* C21: when gen_safepoint_roots returns for a record whose third location
\* holds the count d, stack_offsets is made of the locations at index 3 + d
\* and after only (indices from 0): it holds, in record order, the slot of
\* each pair (locs[3 + d + 2j], locs[3 + d + 2j + 1]) of Indirect locations
\* and nothing else, so the two constants, the count location and the d
\* de-opt locations give no slot.
C21_DeoptsSkipped ==
    output.tag = "Ok" =>
        LET locs == input.stackmap.locs
            d == locs[3].offset.val
            n == IF Len(locs) > 3 + d THEN (Len(locs) - (3 + d)) \div 2 ELSE 0
            base(j) == locs[3 + d + 2 * j - 1]
            derived(j) == locs[3 + d + 2 * j]
            ind == {j \in 1 .. n : base(j).kind = "Indirect" /\ derived(j).kind = "Indirect"}
            rank(j) == Cardinality({i \in ind : i <= j})
        IN  /\ Len(output.stack_offsets) = Cardinality(ind)
            /\ \A j \in ind :
                 output.stack_offsets[rank(j)] =
                     SlotOf(base(j).offset.val, derived(j).offset.val)

\* A record with two de-opt locations that are themselves a pair of Indirect
\* locations of equal offset, followed by a pair of differing offsets, was
\* read: only the second pair gave a slot.
C21_Witness ==
    /\ output.tag = "Ok"
    /\ LET locs == input.stackmap.locs
       IN  /\ Len(locs) = 7
           /\ locs[3].offset.val = 2
           /\ locs[4].kind = "Indirect" /\ locs[5].kind = "Indirect"
           /\ locs[4].offset = locs[5].offset
           /\ locs[4].offset.variant = "I32"
           /\ locs[6].offset.val < 0
    /\ Len(output.stack_offsets) = 1
    /\ output.stack_offsets[1].tag = "Derived"

----------------------------------------------------------------------------
\* What the property of fuzzy_match reads.

\* No line of the pattern is a wildcard or starts with one.
NoWildcard(pattern) ==
    \A i \in DOMAIN PLines(pattern) : ~starts_with(PLines(pattern)[i], WILDCARD)

\* C22: for a pattern without a wildcard line, fuzzy_match returns true
\* exactly when the trimmed lines of the output are the trimmed lines of the
\* pattern, line for line and in the same number.
C22_LiteralMatch ==
    (output.tag # "None" /\ NoWildcard(input.pattern))
        => /\ output.tag = "Ok"
           /\ output.val = (PLines(input.pattern) = SLines(input.s))

====
